---- MODULE Spec2Model ----
(***************************************************************************)
(* Model of the EvidenceCollector slide-table helpers.                     *)
(*                                                                         *)
(*   measureTextPx, wrapWithEllipsis   the text layout engine              *)
(*   addBottomRightTable               the grid table builder              *)
(*                                                                         *)
(* Strings are sequences of one-character strings.  Widths are integers    *)
(* in thousandths of a pixel, font sizes are integers in tenths of a       *)
(* pixel, so that 13.3px and the 0.5 factor of the fallback estimate are   *)
(* exact.                                                                  *)
(***************************************************************************)
EXTENDS Integers, Sequences, FiniteSets, TLC

VARIABLES
    \* ---- one call of wrapWithEllipsis
    impl,        \* the file whose wrapWithEllipsis is called: "part_000" or "part_001"
    text,        \* argument text
    fontPx10,    \* argument fontPx, in tenths of a pixel
    maxWidthPx,  \* argument maxWidthPx, in pixels
    maxLines,    \* argument maxLines
    canvas,      \* TRUE: ctx.measureText works; FALSE: measureTextPx falls back
    wpc,         \* "idle", "call", "done"
    result,      \* the returned lines
    \* ---- one call of addBottomRightTable
    slide,       \* the slide argument: Null, or which methods it has
    rows,        \* opts.rows
    cols,        \* opts.cols
    tpc,         \* "idle", "check", "scan", "outer", "vlines", "hlines", "cells", "done", "threw"
    scanR,       \* the scan's row index r (0-based)
    scanC,       \* the scan's column index c (0-based)
    cell,        \* the descriptor the scan has read last (its local `cell`)
    occupied,    \* the occupancy map
    anchors,     \* the anchor list
    lineB,       \* the boundary index colB / rowB of the grid-line loops
    drawn,       \* the number of anchors the cell loop has drawn
    cmds,        \* the draw commands emitted on the slide, in order
    failures,    \* the number of draw calls of the slide that have thrown
    \* ---- the service worker's cache and the fetch event being handled
    cache,       \* the Cache Storage: url -> stored response, or Null
    written,     \* the responses the fetch handler has put into the cache
    events,      \* the number of fetch events dispatched so far
    spc,         \* "idle", "nav", "match", "net", "settled"
    req,         \* event.request
    cached,      \* what caches.match(req) resolved to
    net,         \* the outcome of fetch(req): Null while pending
    responded,   \* what respondWith's promise resolved to: Null while pending
    bodyUsed,    \* the page has started reading the body of the network response
    putJob,      \* the caches.open(...).then(...) callback not yet run, or Null
    lostWrite,   \* a background write ended in an error instead of a put
    \* ---- wrapWithEllipsis run one loop iteration at a time
    lpc,         \* "idle", "start", "tokens", "strip", "returned"
    lst,         \* the token loop's state: lines, cur, the index i, the break
    visits,      \* visits[i]: the iterations the token loop has spent on words[i]
    lastLine     \* the strip loop's local `last`

wvars == <<impl, text, fontPx10, maxWidthPx, maxLines, canvas, wpc, result>>
tvars == <<slide, rows, cols, tpc, scanR, scanC, cell, occupied, anchors, lineB, drawn, cmds,
          failures>>
svars == <<cache, written, events, spc, req, cached, net, responded, bodyUsed, putJob, lostWrite>>
lvars == <<lpc, lst, visits, lastLine>>
vars == <<wvars, tvars, svars, lvars>>

(***************************************************************************)
(* Bounds of the explored inputs.                                          *)
(***************************************************************************)
MaxLen == 5          \* longest input text, in characters
MaxWidth == 4        \* largest maxWidthPx
MaxLinesBound == 3   \* largest maxLines
MaxCells == 4        \* largest grid, in cells (rows * cols)
MaxSpan == 3         \* largest declared colspan / rowspan
MaxFailures == 2     \* most draw calls that throw in one build

Min(a, b) == IF a < b THEN a ELSE b
Max(a, b) == IF a > b THEN a ELSE b

\* The ellipsis glyph U+2026: one character of a line.
ell == "..."

IsSpace(ch) == ch = " "

\* Characters of the generated texts: a narrow letter, a wide letter, a space.
Alphabet == {"i", "W", " "}

\* Font sizes of the generated calls: 1px and 1.5px (which the canvas rounds to 2px).
FontSizes == {10, 15}

\* Advance width of a character in Arial, in thousandths of the font size.
Advance(ch) ==
    CASE ch = " " -> 278
      [] ch = "-" -> 333
      [] ch = "i" -> 222
      [] ch \in {"0", "1", "2", "3", "L"} -> 556
      [] ch = "T" -> 611
      [] ch \in {"B", "E", "K", "V", "Y"} -> 667
      [] ch \in {"H", "N", "R"} -> 722
      [] ch \in {"G", "O"} -> 778
      [] ch = "W" -> 944
      [] ch = ell -> 1000

RECURSIVE SumAdvance(_)
SumAdvance(s) == IF s = <<>> THEN 0 ELSE Advance(Head(s)) + SumAdvance(Tail(s))

\* Math.round of a font size given in tenths.
RoundPx(f10) == (f10 + 5) \div 10

\* The fallback estimate without its 0.5 factor.
measureTextPxNoHalf(s, f10, cv) ==
    IF cv THEN SumAdvance(s) * RoundPx(f10)
          ELSE Len(s) * (f10 * 100)

\* measureTextPx(text, fontPx, false), in thousandths of a pixel.
\* With a canvas: the width of the text in `${Math.round(fontPx)}px Arial`,
\* taken as the sum of the advance widths.  Without: length * (fontPx * 0.5).
measureTextPx(s, f10, cv) ==
    IF cv THEN SumAdvance(s) * RoundPx(f10)
          ELSE Len(s) * (f10 * 50)

\* measure(s) <= maxWidthPx
Fits(s, f10, mw, cv) == measureTextPx(s, f10, cv) <= mw * 1000

\* String(text).split(/\s+/): the tokens between the runs of whitespace; a
\* text that starts (ends) with whitespace yields a leading (trailing) ''.
RECURSIVE SplitFrom(_, _, _, _)
SplitFrom(s, tok, inWs, acc) ==
    IF s = <<>> THEN Append(acc, tok)
    ELSE IF IsSpace(Head(s))
         THEN IF inWs THEN SplitFrom(Tail(s), tok, TRUE, acc)
                      ELSE SplitFrom(Tail(s), <<>>, TRUE, Append(acc, tok))
         ELSE SplitFrom(Tail(s), Append(tok, Head(s)), FALSE, acc)

split(s) == SplitFrom(s, <<>>, FALSE, <<>>)

\* String(text).trim()
RECURSIVE TrimLeft(_)
TrimLeft(s) == IF s # <<>> /\ IsSpace(Head(s)) THEN TrimLeft(Tail(s)) ELSE s

RECURSIVE TrimRight(_)
TrimRight(s) ==
    IF s # <<>> /\ IsSpace(s[Len(s)]) THEN TrimRight(SubSeq(s, 1, Len(s) - 1)) ELSE s

trim(s) == TrimRight(TrimLeft(s))

\* lines.join(' ')
RECURSIVE join(_)
join(ls) ==
    IF ls = <<>> THEN <<>>
    ELSE IF Len(ls) = 1 THEN ls[1]
    ELSE ls[1] \o <<" ">> \o join(Tail(ls))

\* lines.slice(0, n)
slice(ls, n) == SubSeq(ls, 1, Min(Max(n, 0), Len(ls)))

\* The hard break of a token wider than maxWidthPx: for(const ch of w) ...
\* Returns the lines and the partial left when the loop ends or breaks.
RECURSIVE HardBreak(_, _, _, _, _, _, _)
HardBreak(w, partial, ls, f10, mw, ml, cv) ==
    IF w = <<>> THEN [lines |-> ls, partial |-> partial]
    ELSE LET ch == Head(w)
             withCh == Append(partial, ch)
         IN  IF Fits(withCh, f10, mw, cv)
             THEN HardBreak(Tail(w), withCh, ls, f10, mw, ml, cv)
             ELSE LET pushed == Append(ls, partial)
                  IN  IF Len(pushed) >= ml
                      THEN [lines |-> pushed, partial |-> <<ch>>]
                      ELSE HardBreak(Tail(w), <<ch>>, pushed, f10, mw, ml, cv)

\* One iteration of the token loop on st = [lines, cur, i, brk]; i is the
\* 1-based index of words[i]; brk records the break at the end of the body.
\* The i-- of the reprocessing branch and the loop's i++ leave i unchanged.
TokenIter(st, words, f10, mw, ml, cv) ==
    LET w == words[st.i]
        body ==
            IF st.cur = <<>>
            THEN IF ~Fits(w, f10, mw, cv)
                 THEN LET hb == HardBreak(w, <<>>, st.lines, f10, mw, ml, cv)
                      IN  [lines |-> hb.lines,
                           cur   |-> IF hb.partial # <<>> /\ Len(hb.lines) < ml
                                     THEN hb.partial ELSE <<>>,
                           i     |-> st.i + 1]
                 ELSE [lines |-> st.lines, cur |-> w, i |-> st.i + 1]
            ELSE LET newLine == st.cur \o <<" ">> \o w
                 IN  IF Fits(newLine, f10, mw, cv)
                     THEN [lines |-> st.lines, cur |-> newLine, i |-> st.i + 1]
                     ELSE [lines |-> Append(st.lines, st.cur), cur |-> <<>>, i |-> st.i]
    IN  [lines |-> body.lines, cur |-> body.cur, i |-> body.i,
         brk |-> Len(body.lines) >= ml]

\* for(let i=0;i<words.length;i++){ ... if(lines.length >= maxLines) break; }
RECURSIVE TokenLoop(_, _, _, _, _, _)
TokenLoop(st, words, f10, mw, ml, cv) ==
    IF st.brk \/ st.i > Len(words) THEN st
    ELSE TokenLoop(TokenIter(st, words, f10, mw, ml, cv), words, f10, mw, ml, cv)

\* if(lines.length < maxLines && cur) lines.push(cur);
FlushCur(ls, cur, ml) == IF Len(ls) < ml /\ cur # <<>> THEN Append(ls, cur) ELSE ls

\* The last line taken as it is, never stripped.
StripNothing(last, f10, mw, cv) == last

\* while(last.length && measureTextPx(last + ell) > maxWidthPx) last = last.slice(0, -1);
RECURSIVE StripToFit(_, _, _, _)
StripToFit(last, f10, mw, cv) ==
    IF Len(last) > 0 /\ ~Fits(Append(last, ell), f10, mw, cv)
    THEN StripToFit(SubSeq(last, 1, Len(last) - 1), f10, mw, cv)
    ELSE last

\* lines[lines.length - 1] = last + ell
SetLast(ls, last) == [ls EXCEPT ![Len(ls)] = last]

\* The truncation test off by one: one lost character goes unnoticed.
TruncatedOffByOne(ls, txt) == Len(ls) > 0 /\ Len(join(ls)) + 1 < Len(trim(txt))

\* The truncation test: the joined lines are shorter than the trimmed text.
Truncated(ls, txt) == Len(ls) > 0 /\ Len(join(ls)) < Len(trim(txt))

\* "Ellipsize last line if content remains", and the else-branch for a last
\* line that is still too wide when exactly maxLines lines were produced.
Ellipsize(ls, txt, f10, mw, ml, cv) ==
    IF Truncated(ls, txt)
    THEN SetLast(ls, Append(StripToFit(ls[Len(ls)], f10, mw, cv), ell))
    ELSE IF Len(ls) = ml /\ ~Fits(ls[Len(ls)], f10, mw, cv)
         THEN SetLast(ls, Append(StripToFit(ls[Len(ls)], f10, mw, cv), ell))
         ELSE ls

\* The lines before the final slice.
WrapLines(txt, f10, mw, ml, cv) ==
    LET words == split(txt)
        st == TokenLoop([lines |-> <<>>, cur |-> <<>>, i |-> 1, brk |-> FALSE],
                        words, f10, mw, ml, cv)
    IN  Ellipsize(FlushCur(st.lines, st.cur, ml), txt, f10, mw, ml, cv)

\* The second file's tail: the lines are recomposed with the accumulator
\* (which the flush has not cleared) and compared, trimmed, with the text.
Ellipsize001(ls, cur, txt, f10, mw, ml, cv) ==
    IF Len(ls) > 0
    THEN LET recomposed == join(ls) \o (IF cur # <<>> THEN <<" ">> \o cur ELSE <<>>)
             last == ls[Len(ls)]
         IN  IF Len(trim(recomposed)) < Len(trim(txt))
             THEN SetLast(ls, Append(IF ~Fits(Append(last, ell), f10, mw, cv)
                                     THEN StripToFit(last, f10, mw, cv)
                                     ELSE last, ell))
             ELSE IF Len(ls) = ml /\ ~Fits(last, f10, mw, cv)
                  THEN SetLast(ls, Append(StripToFit(last, f10, mw, cv), ell))
                  ELSE ls
    ELSE ls

\* wrapWithEllipsis(text, fontPx, maxWidthPx, maxLines) of the second file
wrapWithEllipsis001(txt, f10, mw, ml, cv) ==
    IF txt = <<>> THEN <<>>
    ELSE LET words == split(txt)
             st == TokenLoop([lines |-> <<>>, cur |-> <<>>, i |-> 1, brk |-> FALSE],
                             words, f10, mw, ml, cv)
         IN  slice(Ellipsize001(FlushCur(st.lines, st.cur, ml), st.cur, txt,
                                f10, mw, ml, cv), ml)

\* The line limit off by one in the loops, and no final slice.
wrapWithEllipsisOverLimit(txt, f10, mw, ml, cv) ==
    IF txt = <<>> THEN <<>>
    ELSE WrapLines(txt, f10, mw, ml + 1, cv)

\* wrapWithEllipsis(text, fontPx, maxWidthPx, maxLines)
wrapWithEllipsis(txt, f10, mw, ml, cv) ==
    IF txt = <<>> THEN <<>>
    ELSE slice(WrapLines(txt, f10, mw, ml, cv), ml)
(***************************************************************************)
(* addBottomRightTable(slide, opts).                                       *)
(*                                                                         *)
(* opts.data is read-only during the call and each field of a descriptor   *)
(* is read once, so a field's value is drawn where the code reads it: the  *)
(* declared colspan and rowspan (NoSpan when the field is absent) in the   *)
(* scan, the content (label, value, imageData) in the cell loop.  An       *)
(* anchor's cell is Null (no entry at data[r][c]) or SomeCell (a           *)
(* reference to the descriptor).  The geometry in inches is not modelled:  *)
(* a draw command is recorded by its kind and the boundary or anchor it is *)
(* for.  The global `pptx` the draw calls name is taken to be defined.     *)
(***************************************************************************)
\* null / undefined: a record unlike any descriptor, content or slide.
Null == [null |-> TRUE]

\* A reference to a descriptor object.
SomeCell == [null |-> FALSE]

\* A declared span is <<n>>, or <<>> when the field is absent.
NoSpan == <<>>

\* What the cell loop reads of a descriptor: label, value, imageData.
Contents ==
    { [label |-> <<>>,    value |-> <<>>,    imageData |-> FALSE],   \* {}
      [label |-> <<"i">>, value |-> <<>>,    imageData |-> FALSE],   \* a header cell
      [label |-> <<"i">>, value |-> <<"W">>, imageData |-> FALSE],
      [label |-> <<>>,    value |-> <<>>,    imageData |-> TRUE],    \* a logo cell
      [label |-> <<"i">>, value |-> <<"W">>, imageData |-> TRUE],
      [label |-> <<>>,    value |-> <<" ">>, imageData |-> FALSE] }  \* a blank value

\* Declared spans: absent, negative, zero, and 1 .. MaxSpan.
SpanDecls == {NoSpan} \cup {<<n>> : n \in -1 .. MaxSpan}

\* What the scan reads of a descriptor: colspan, rowspan.
Descriptors == [colspan : SpanDecls, rowspan : SpanDecls]

\* The slides passed in: none, or an object with some of the three methods.
Slides == {Null} \cup [addText : BOOLEAN, addShape : BOOLEAN, addImage : BOOLEAN]

\* The grid sizes of the generated calls.
Grids == {g \in (1..MaxCells) \X (1..MaxCells) : g[1] * g[2] <= MaxCells}

TableIdle ==
    /\ slide = Null /\ rows = 0 /\ cols = 0 /\ tpc = "idle"
    /\ scanR = 0 /\ scanC = 0 /\ cell = Null
    /\ occupied = <<>> /\ anchors = <<>> /\ lineB = 0 /\ drawn = 0 /\ cmds = <<>>
    /\ failures = 0

WrapIdle ==
    /\ impl = "part_000" /\ text = <<>> /\ fontPx10 = 0 /\ maxWidthPx = 0 /\ maxLines = 0
    /\ wpc = "idle" /\ result = <<>>

\* No response, no request, no settled promise.
SwIdle ==
    /\ cache = <<>> /\ written = {} /\ events = 0 /\ spc = "idle"
    /\ req = Null /\ cached = Null /\ net = Null /\ responded = Null
    /\ bodyUsed = FALSE /\ putJob = Null /\ lostWrite = FALSE

\* wrapWithEllipsis is not being stepped.
LoopIdle == lpc = "idle" /\ lst = Null /\ visits = <<>> /\ lastLine = <<>>

InitTable ==
    /\ WrapIdle
    /\ SwIdle
    /\ LoopIdle
    /\ canvas \in BOOLEAN
    /\ slide \in Slides
    /\ \E g \in Grids : rows = g[1] /\ cols = g[2]
    /\ tpc = "check"
    /\ scanR = 0 /\ scanC = 0 /\ cell = Null
    \* Array.from({length: rows}, ()=> Array(cols).fill(false))
    /\ occupied = [rr \in 0..(rows - 1) |-> [cc \in 0..(cols - 1) |-> FALSE]]
    /\ anchors = <<>> /\ lineB = 0 /\ drawn = 0 /\ cmds = <<>>
    /\ failures = 0

\* if(!slide || typeof slide.addText !== 'function') throw new Error(...)
CheckSlide ==
    /\ tpc = "check"
    /\ tpc' = IF slide = Null \/ ~slide.addText THEN "threw" ELSE "scan"
    /\ UNCHANGED <<slide, rows, cols, scanR, scanC, cell, occupied, anchors, lineB, drawn, cmds,
                   failures>>
    /\ UNCHANGED <<wvars, svars, lvars>>

\* The span declared without the clamp to the grid.
resolveSpanUnclamped(d, declared, room) ==
    IF d # Null /\ declared # NoSpan /\ declared[1] > 0 THEN declared[1] ELSE 1

\* (cell && Number(cell.colspan)>0) ? Math.min(cols - c, Number(cell.colspan)) : 1
resolveSpan(d, declared, room) ==
    IF d # Null /\ declared # NoSpan /\ declared[1] > 0 THEN Min(room, declared[1]) ELSE 1

\* for(rr..) for(cc..) if(rr < rows && cc < cols) occupied[rr][cc] = true;
markOccupied(occ, r0, c0, rowspan, colspan) ==
    [rr \in 0..(rows - 1) |->
        [cc \in 0..(cols - 1) |->
            IF rr >= r0 /\ rr < r0 + rowspan /\ cc >= c0 /\ cc < c0 + colspan
            THEN TRUE ELSE occ[rr][cc]]]

\* The scan's c++ / r++, and the end of the scan.
ScanAdvance ==
    IF scanC + 1 < cols THEN scanR' = scanR /\ scanC' = scanC + 1 /\ tpc' = "scan"
    ELSE IF scanR + 1 < rows THEN scanR' = scanR + 1 /\ scanC' = 0 /\ tpc' = "scan"
    ELSE scanR' = scanR /\ scanC' = scanC /\ tpc' = "outer"

\* if(occupied[r][c]) continue;
ScanSkip ==
    /\ tpc = "scan"
    /\ occupied[scanR][scanC]
    /\ ScanAdvance
    /\ UNCHANGED <<slide, rows, cols, cell, occupied, anchors, lineB, drawn, cmds, failures>>
    /\ UNCHANGED <<wvars, svars, lvars>>

\* An unoccupied position: read data[r][c], resolve its spans, mark the
\* positions it covers, record the anchor.
ScanAnchor ==
    /\ tpc = "scan"
    /\ ~occupied[scanR][scanC]
    /\ \E d \in {Null} \cup Descriptors :
          LET colspan == resolveSpan(d, IF d = Null THEN NoSpan ELSE d.colspan, cols - scanC)
              rowspan == resolveSpan(d, IF d = Null THEN NoSpan ELSE d.rowspan, rows - scanR)
          IN  /\ occupied' = markOccupied(occupied, scanR, scanC, rowspan, colspan)
              /\ anchors' = Append(anchors,
                     [r |-> scanR, c |-> scanC,
                      cell |-> IF d = Null THEN Null ELSE SomeCell,
                      colspan |-> colspan, rowspan |-> rowspan])
              /\ ScanAdvance
              /\ cell' = d
    /\ UNCHANGED <<slide, rows, cols, lineB, drawn, cmds, failures>>
    /\ UNCHANGED <<wvars, svars, lvars>>

\* A draw command: its kind, and the boundary or the anchor number it is for.
Cmd(kind, n) == [kind |-> kind, n |-> n]

\* The numbers of draw calls that may throw in one step, out of `most`
\* calls: a slide's method can throw on any call; at most MaxFailures throws
\* are explored in one build.
Throws(most) == 0 .. Min(most, MaxFailures - failures)

\* The outer rectangle: try{ slide.addShape(rect, fill+line) }catch(e){
\* slide.addShape(rect, line) }.  A first call that throws is followed by the
\* call without fill; an error of that second call leaves the function.
\* Without addShape both calls raise.  The scan's locals go out of scope.
DrawOuter ==
    /\ tpc = "outer"
    /\ IF slide.addShape
       THEN \E thrown \in Throws(2) :
               /\ failures' = failures + thrown
               /\ IF thrown < 2
                  THEN /\ cmds' = Append(cmds, Cmd("outer", 0))
                       /\ tpc' = "vlines"
                       /\ lineB' = 1
                  ELSE /\ cmds' = cmds
                       /\ tpc' = "threw"
                       /\ lineB' = lineB
       ELSE /\ cmds' = cmds
            /\ tpc' = "threw"
            /\ lineB' = lineB
            /\ failures' = failures
    /\ cell' = Null
    /\ UNCHANGED <<slide, rows, cols, scanR, scanC, occupied, anchors, drawn>>
    /\ UNCHANGED <<wvars, svars, lvars>>

\* The crossing test with <= at the start: a span that starts at the boundary counts.
crossesFromStart(a, start, span, bnd) == a.cell # Null /\ (start <= bnd /\ start + span > bnd)

\* a.cell && (start < colB && end > colB)
crosses(a, start, span, bnd) == a.cell # Null /\ (start < bnd /\ start + span > bnd)

\* for(const a of anchors){ ... skip = true; break; } for a column boundary
skipColumnLine(bnd) == \E i \in 1..Len(anchors) : crosses(anchors[i], anchors[i].c, anchors[i].colspan, bnd)

\* the same for a row boundary
skipRowLine(bnd) == \E i \in 1..Len(anchors) : crosses(anchors[i], anchors[i].r, anchors[i].rowspan, bnd)

\* One iteration of for(let colB = 1; colB < cols; colB++), or the loop's end.
DrawVLine ==
    /\ tpc = "vlines"
    /\ IF lineB < cols
       THEN \E thrown \in (IF skipColumnLine(lineB) THEN {0} ELSE Throws(1)) :
               /\ failures' = failures + thrown
               /\ cmds' = IF skipColumnLine(lineB) \/ thrown = 1
                          THEN cmds ELSE Append(cmds, Cmd("vline", lineB))
               /\ lineB' = lineB + 1
               /\ tpc' = IF thrown = 1 THEN "threw" ELSE tpc
       ELSE /\ cmds' = cmds
            /\ lineB' = 1
            /\ tpc' = "hlines"
            /\ failures' = failures
    /\ UNCHANGED <<slide, rows, cols, scanR, scanC, cell, occupied, anchors, drawn>>
    /\ UNCHANGED <<wvars, svars, lvars>>

\* One iteration of for(let rowB = 1; rowB < rows; rowB++), or the loop's end.
DrawHLine ==
    /\ tpc = "hlines"
    /\ IF lineB < rows
       THEN \E thrown \in (IF skipRowLine(lineB) THEN {0} ELSE Throws(1)) :
               /\ failures' = failures + thrown
               /\ cmds' = IF skipRowLine(lineB) \/ thrown = 1
                          THEN cmds ELSE Append(cmds, Cmd("hline", lineB))
               /\ lineB' = lineB + 1
               /\ tpc' = IF thrown = 1 THEN "threw" ELSE tpc
       ELSE /\ cmds' = cmds
            /\ lineB' = lineB
            /\ tpc' = "cells"
            /\ failures' = failures
    /\ UNCHANGED <<slide, rows, cols, scanR, scanC, cell, occupied, anchors, drawn>>
    /\ UNCHANGED <<wvars, svars, lvars>>

\* Program constants of the value text: valuePt, _DPI, the floor of
\* maxWidthPx, the default maxLines.
valuePt == 12
DPI == 96
MinValueWidthPx == 8
DefaultMaxLines == 2

\* cellValuePx = valuePt * _PT_TO_PX, in tenths of a pixel
cellValuePx10 == (valuePt * DPI * 10) \div 72

\* The image embedded before the label is written.
anchorCallsImageFirst(a, ct) ==
    <<"inner">> \o
    (IF a.cell = Null THEN <<>>
     ELSE (IF ct.imageData THEN <<"image">> ELSE <<>>) \o
          (IF ct.label # <<>> THEN <<"label">> ELSE <<>>) \o
          (IF ct.value # <<>>
              /\ wrapWithEllipsis(ct.value, cellValuePx10, MinValueWidthPx,
                                  DefaultMaxLines, canvas) # <<>>
           THEN <<"value">> ELSE <<>>))

\* The draw calls one anchor's iteration issues when none of them throws, in
\* order: the inner rectangle; then, for a descriptor, the label text, the
\* image, the value text when its wrapped lines are not empty.
anchorCalls(a, ct) ==
    <<"inner">> \o
    (IF a.cell = Null THEN <<>>
     ELSE (IF ct.label # <<>> THEN <<"label">> ELSE <<>>) \o
          (IF ct.imageData THEN <<"image">> ELSE <<>>) \o
          (IF ct.value # <<>>
              /\ wrapWithEllipsis(ct.value, cellValuePx10, MinValueWidthPx,
                                  DefaultMaxLines, canvas) # <<>>
           THEN <<"value">> ELSE <<>>))

\* The calls run in order, `fail` being the kinds whose call throws: an
\* addImage that throws (or is missing) is caught and logged and the cell
\* goes on; any other call that throws leaves the function.
RECURSIVE RunCalls(_, _, _, _)
RunCalls(calls, n, fail, acc) ==
    IF calls = <<>> THEN acc
    ELSE LET kind == Head(calls)
         IN  IF kind = "image"
             THEN IF kind \in fail \/ ~slide.addImage
                  THEN RunCalls(Tail(calls), n, fail,
                                [acc EXCEPT !.thrown = @ + (IF kind \in fail /\ slide.addImage
                                                           THEN 1 ELSE 0)])
                  ELSE RunCalls(Tail(calls), n, fail,
                                [acc EXCEPT !.cmds = Append(@, Cmd(kind, n))])
             ELSE IF kind \in fail
                  THEN [acc EXCEPT !.thrown = @ + 1, !.threw = TRUE]
                  ELSE RunCalls(Tail(calls), n, fail,
                                [acc EXCEPT !.cmds = Append(@, Cmd(kind, n))])

\* The outcome of one anchor's iteration: the commands emitted, the number of
\* calls that threw, and whether an error left the function.
anchorCmds(a, ct, n, fail) ==
    RunCalls(anchorCalls(a, ct), n, fail, [cmds |-> <<>>, thrown |-> 0, threw |-> FALSE])

\* The draw calls of an anchor that may throw together in one iteration.
FailSets(a, ct) ==
    {f \in SUBSET {anchorCalls(a, ct)[i] : i \in 1..Len(anchorCalls(a, ct))} :
        Cardinality(f) \in Throws(Len(anchorCalls(a, ct)))}

\* One iteration of for(const a of anchors), or the loop's end and the return.
\* Only the calls that are reached can throw.
DrawAnchor ==
    /\ tpc = "cells"
    /\ IF drawn < Len(anchors)
       THEN \E ct \in Contents : \E fail \in FailSets(anchors[drawn + 1], ct) :
               LET run == anchorCmds(anchors[drawn + 1], ct, drawn + 1, fail)
               IN  /\ run.thrown = Cardinality(fail)
                   /\ cmds' = cmds \o run.cmds
                   /\ failures' = failures + run.thrown
                   /\ drawn' = drawn + 1
                   /\ tpc' = IF run.threw THEN "threw" ELSE tpc
       ELSE /\ cmds' = cmds
            /\ drawn' = drawn
            /\ tpc' = "done"
            /\ failures' = failures
    /\ UNCHANGED <<slide, rows, cols, scanR, scanC, cell, occupied, anchors, lineB>>
    /\ UNCHANGED <<wvars, svars, lvars>>

NextTable == CheckSlide \/ ScanSkip \/ ScanAnchor \/ DrawOuter \/ DrawVLine \/ DrawHLine \/ DrawAnchor

SpecTable == InitTable /\ [][NextTable]_vars

(***************************************************************************)
(* The service worker's fetch listener.                                    *)
(*                                                                         *)
(* The two versions of the worker differ in the cache name and the shell   *)
(* page only; one listener is modelled.  Fetch events are handled one      *)
(* after the other; within one event the promise callbacks (the cache      *)
(* lookup, the network response, the cache-open callback) and the page's   *)
(* reading of the response body interleave freely.                         *)
(***************************************************************************)
\* The request urls: the app shell page and another asset.
Urls == {"shell", "asset"}

\* event.request: its method, its mode and its url.
Requests == [method : {"GET", "POST"}, mode : {"navigate", "no-cors"}, url : Urls]

\* A 200 response of the origin.
OkResponse == [status |-> 200, type |-> "basic"]

\* What the network can answer: 200, an error status, or an opaque
\* cross-origin response (status 0).  A navigation never gets an opaque one.
NetResponses == {OkResponse, [status |-> 404, type |-> "basic"], [status |-> 0, type |-> "opaque"]}
NavResponses == {res \in NetResponses : res.type # "opaque"}

\* fetch(req) rejected (offline).
Failed == [failed |-> TRUE]

\* The number of fetch events dispatched.
MaxEvents == 2

\* After install: cache.addAll stored a 200 response for a url or the url
\* is not in the cache.
InitSW ==
    /\ WrapIdle /\ canvas = FALSE
    /\ TableIdle
    /\ cache \in [Urls -> {Null, OkResponse}]
    /\ written = {} /\ events = 0 /\ spc = "idle"
    /\ req = Null /\ cached = Null /\ net = Null /\ responded = Null
    /\ bodyUsed = FALSE /\ putJob = Null /\ lostWrite = FALSE
    /\ LoopIdle

\* What respondWith's promise resolves to: where the response comes from.
Respond(from, res) == [from |-> from, res |-> res]

\* self.addEventListener('fetch', event => {...}): the synchronous part.
\* A request that is not a GET is left to the browser; a navigation starts
\* fetch(req); any other GET starts caches.match(req).
FetchEvent ==
    /\ spc \in {"idle", "settled"}
    /\ putJob = Null
    /\ events < MaxEvents
    /\ \E rq \in Requests :
          /\ req' = rq
          /\ spc' = IF rq.method # "GET" THEN "idle"
                    ELSE IF rq.mode = "navigate" THEN "nav" ELSE "match"
    /\ events' = events + 1
    /\ cached' = Null /\ net' = Null /\ responded' = Null /\ bodyUsed' = FALSE
    /\ UNCHANGED <<cache, written, putJob, lostWrite>>
    /\ UNCHANGED <<wvars, tvars, lvars>>

\* Navigation: fetch(req).then(res => { copy = res.clone(); caches.open(..)
\* .then(cache => cache.put(req, copy)); return res; })
\* .catch(() => caches.match(shell)).  The clone is taken in the callback
\* itself, before res is returned.
NavSettle ==
    /\ spc = "nav"
    /\ \E out \in NavResponses \cup {Failed} :
          /\ net' = out
          /\ IF out = Failed
             THEN /\ responded' = Respond("cache", cache["shell"])
                  /\ putJob' = Null
             ELSE /\ responded' = Respond("network", out)
                  /\ putJob' = [url |-> req.url, res |-> out, cloned |-> TRUE]
    /\ spc' = "settled"
    /\ UNCHANGED <<cache, written, events, req, cached, bodyUsed, lostWrite>>
    /\ UNCHANGED <<wvars, tvars, lvars>>

\* The pending promise of fetch(req).
Pending == [pending |-> TRUE]

\* The network promise preferred to the cached response.
networkFirst(cachedV, networkV) == networkV

\* cached || networkFetch
cachedOrNetwork(cachedV, networkV) == IF cachedV # Null THEN cachedV ELSE networkV

\* caches.match(req).then(cached => { const networkFetch = fetch(req)...;
\* return cached || networkFetch; }): the lookup resolves, the fetch starts,
\* and respondWith gets the cached response or waits for the network.
Match ==
    /\ spc = "match"
    /\ cached' = cache[req.url]
    /\ responded' = IF cachedOrNetwork(cache[req.url], Pending) = Pending
                    THEN Null
                    ELSE Respond("cache", cache[req.url])
    /\ spc' = "net"
    /\ UNCHANGED <<cache, written, events, req, net, bodyUsed, putJob, lostWrite>>
    /\ UNCHANGED <<wvars, tvars, lvars>>

\* networkRes && networkRes.status === 200 && networkRes.type !== 'opaque'
cacheable(res) == res.status = 200 /\ res.type # "opaque"

\* fetch(req) settles: .then(networkRes => { if(cacheable) caches.open(..)
\* .then(cache => cache.put(req, networkRes.clone())); return networkRes; })
\* .catch(() => null).  The clone is taken later, in the cache-open callback.
NetSettle ==
    /\ spc = "net"
    /\ \E out \in NetResponses \cup {Failed} :
          /\ net' = out
          /\ putJob' = IF out # Failed /\ cacheable(out)
                       THEN [url |-> req.url, res |-> out, cloned |-> FALSE]
                       ELSE Null
          /\ responded' = IF responded = Null
                          THEN Respond("network", IF out = Failed THEN Null ELSE out)
                          ELSE responded
    /\ spc' = "settled"
    /\ UNCHANGED <<cache, written, events, req, cached, bodyUsed, lostWrite>>
    /\ UNCHANGED <<wvars, tvars, lvars>>

\* The page reads the body of the network response it was answered with.
ConsumeBody ==
    /\ spc = "settled"
    /\ responded # Null /\ responded.from = "network" /\ responded.res # Null
    /\ ~bodyUsed
    /\ bodyUsed' = TRUE
    /\ UNCHANGED <<cache, written, events, spc, req, cached, net, responded, putJob, lostWrite>>
    /\ UNCHANGED <<wvars, tvars, lvars>>

\* caches.open(CACHE_NAME) resolves and its callback runs.  With the copy
\* taken beforehand the put stores it; otherwise networkRes.clone() runs
\* now and throws a TypeError when the body of networkRes is already in use,
\* so that nothing is stored.
OpenCallback ==
    /\ putJob # Null
    /\ IF putJob.cloned \/ ~(bodyUsed /\ responded = Respond("network", putJob.res))
       THEN /\ cache' = [cache EXCEPT ![putJob.url] = putJob.res]
            /\ written' = written \cup {putJob.res}
            /\ lostWrite' = lostWrite
       ELSE /\ cache' = cache
            /\ written' = written
            /\ lostWrite' = TRUE
    /\ putJob' = Null
    /\ UNCHANGED <<events, spc, req, cached, net, responded, bodyUsed>>
    /\ UNCHANGED <<wvars, tvars, lvars>>

NextSW == FetchEvent \/ NavSettle \/ Match \/ NetSettle \/ ConsumeBody \/ OpenCallback

SpecSW == InitSW /\ [][NextSW]_vars

(***************************************************************************)
(* Calls of wrapWithEllipsis.                                              *)
(***************************************************************************)
\* All texts over the alphabet, up to MaxLen characters ('' included).
Texts == UNION {[1..n -> Alphabet] : n \in 0..MaxLen}

\* The call of the documented example: "BH-00123-VERY-LONG-TOKEN", 13.3px, 60px, 3 lines.
ExampleText ==
    <<"B", "H", "-", "0", "0", "1", "2", "3", "-", "V", "E", "R", "Y", "-",
      "L", "O", "N", "G", "-", "T", "O", "K", "E", "N">>

ExampleCall == [text |-> ExampleText, fontPx10 |-> 133, maxWidthPx |-> 60, maxLines |-> 3]

Calls ==
    [text : Texts, fontPx10 : FontSizes, maxWidthPx : 0..MaxWidth, maxLines : 1..MaxLinesBound]
    \cup {ExampleCall}

InitWrap ==
    /\ \E call \in Calls :
          /\ text = call.text
          /\ fontPx10 = call.fontPx10
          /\ maxWidthPx = call.maxWidthPx
          /\ maxLines = call.maxLines
    /\ impl \in {"part_000", "part_001"}
    /\ canvas \in BOOLEAN
    /\ wpc = "call"
    /\ result = <<>>
    /\ TableIdle
    /\ SwIdle
    /\ LoopIdle

\* The call runs to its return.
CallWrap ==
    /\ wpc = "call"
    /\ result' = IF impl = "part_000"
                 THEN wrapWithEllipsis(text, fontPx10, maxWidthPx, maxLines, canvas)
                 ELSE wrapWithEllipsis001(text, fontPx10, maxWidthPx, maxLines, canvas)
    /\ wpc' = "done"
    /\ UNCHANGED <<impl, text, fontPx10, maxWidthPx, maxLines, canvas>>
    /\ UNCHANGED <<tvars, svars, lvars>>

NextWrap == CallWrap

SpecWrap == InitWrap /\ [][NextWrap]_vars

(***************************************************************************)
(* wrapWithEllipsis of the first file, one loop iteration at a time: the   *)
(* token loop with its i-- reprocessing, then the strip loop of the        *)
(* ellipsis.  The for-of loop of the hard break runs over the characters   *)
(* of one token and is part of the token loop's iteration.                 *)
(***************************************************************************)
\* The calls that are stepped: the texts made of the wide letter and the
\* space, and the documented example.
LoopCalls ==
    {call \in Calls :
        \/ call = ExampleCall
        \/ \A j \in 1..Len(call.text) : call.text[j] \in {"W", " "}}

InitLoop ==
    /\ \E call \in LoopCalls :
          /\ text = call.text
          /\ fontPx10 = call.fontPx10
          /\ maxWidthPx = call.maxWidthPx
          /\ maxLines = call.maxLines
    /\ impl = "part_000"
    /\ canvas \in BOOLEAN
    /\ wpc = "idle"
    /\ result = <<>>
    /\ TableIdle
    /\ SwIdle
    /\ lpc = "start" /\ lst = Null /\ visits = <<>> /\ lastLine = <<>>

\* if(!text) return []; const words = String(text).split(/\s+/); lines = []; cur = ''
EnterCall ==
    /\ lpc = "start"
    /\ IF text = <<>>
       THEN lpc' = "returned" /\ lst' = lst /\ visits' = visits
       ELSE /\ lpc' = "tokens"
            /\ lst' = [lines |-> <<>>, cur |-> <<>>, i |-> 1, brk |-> FALSE]
            /\ visits' = [j \in 1..Len(split(text)) |-> 0]
    /\ UNCHANGED <<lastLine, wvars, tvars, svars>>

\* One iteration of the token loop, on words[i].
TokenStep ==
    /\ lpc = "tokens"
    /\ ~lst.brk /\ lst.i <= Len(split(text))
    /\ lst' = TokenIter(lst, split(text), fontPx10, maxWidthPx, maxLines, canvas)
    /\ visits' = [visits EXCEPT ![lst.i] = @ + 1]
    /\ UNCHANGED <<lpc, lastLine, wvars, tvars, svars>>

\* The last line stays as it is.
stripLastKeep(l) == l

\* last = last.slice(0, -1)
stripLast(l) == SubSeq(l, 1, Len(l) - 1)

\* The token loop has ended: the accumulator is flushed, and the last line
\* is either taken into the strip loop or the lines are returned.
LoopExit ==
    /\ lpc = "tokens"
    /\ lst.brk \/ lst.i > Len(split(text))
    /\ LET ls == FlushCur(lst.lines, lst.cur, maxLines)
       IN  /\ lst' = [lst EXCEPT !.lines = ls]
           /\ IF Truncated(ls, text)
                 \/ (Len(ls) > 0 /\ Len(ls) = maxLines
                     /\ ~Fits(ls[Len(ls)], fontPx10, maxWidthPx, canvas))
              THEN lpc' = "strip" /\ lastLine' = ls[Len(ls)] /\ result' = result
              ELSE lpc' = "returned" /\ lastLine' = lastLine /\ result' = slice(ls, maxLines)
    /\ UNCHANGED <<visits, impl, text, fontPx10, maxWidthPx, maxLines, canvas, wpc, tvars, svars>>

\* One test of while(last.length && measureTextPx(last + ell) > maxWidthPx):
\* a character is stripped, or the loop ends, the ellipsis is appended and
\* the lines are returned.
StripStep ==
    /\ lpc = "strip"
    /\ IF Len(lastLine) > 0 /\ ~Fits(Append(lastLine, ell), fontPx10, maxWidthPx, canvas)
       THEN lastLine' = stripLast(lastLine) /\ lpc' = lpc /\ result' = result
       ELSE /\ lastLine' = lastLine
            /\ lpc' = "returned"
            /\ result' = slice(SetLast(lst.lines, Append(lastLine, ell)), maxLines)
    /\ UNCHANGED <<lst, visits, impl, text, fontPx10, maxWidthPx, maxLines, canvas, wpc, tvars, svars>>

NextLoop == EnterCall \/ TokenStep \/ LoopExit \/ StripStep

SpecLoop == InitLoop /\ [][NextLoop]_vars

\* The function runs on until it returns: no step that can be taken is put
\* off forever.
FairSpecLoop == SpecLoop /\ WF_vars(NextLoop)

(***************************************************************************)
(* Properties of wrapWithEllipsis.                                         *)
(***************************************************************************)
WrapDone == wpc = "done"

\* The number of characters of the input in s: neither whitespace nor the ellipsis.
RECURSIVE InkCount(_)
InkCount(s) ==
    IF s = <<>> THEN 0
    ELSE (IF IsSpace(Head(s)) \/ Head(s) = ell THEN 0 ELSE 1) + InkCount(Tail(s))

\* Some non-whitespace character of the text is in no returned line.
Dropped == InkCount(join(result)) < InkCount(text)

\* Some token of the text is wider than maxWidthPx, so it is hard-broken.
HasWideToken ==
    \E k \in 1..Len(split(text)) : ~Fits(split(text)[k], fontPx10, maxWidthPx, canvas)

LineFits(l) == Fits(l, fontPx10, maxWidthPx, canvas)

AllLinesFit == \A k \in 1..Len(result) : LineFits(result[k])

EndsWithEllipsis(l) == l # <<>> /\ l[Len(l)] = ell

LastLineEllipsized == result # <<>> /\ EndsWithEllipsis(result[Len(result)])

NoEllipsis == \A k \in 1..Len(result) : \A j \in 1..Len(result[k]) : result[k][j] # ell

\* The text is one token: non-empty, no whitespace.
SingleToken == text # <<>> /\ \A k \in 1..Len(text) : ~IsSpace(text[k])

\* C1: wrapWithEllipsis returns at most maxLines lines, for every text, font
\* size, maxWidthPx and maxLines >= 1, hard-broken tokens included.
C1_AtMostMaxLines == WrapDone => Len(result) <= maxLines

\* A call that filled all of several lines by hard-breaking and lost content.
C1_Witness ==
    /\ WrapDone /\ maxLines >= 2 /\ Len(result) = maxLines
    /\ HasWideToken /\ Dropped

\* C2: whenever content is dropped (in word wrapping or in hard-breaking a
\* long token), the last returned line ends with the ellipsis glyph.  This is
\* the first half of the claim; its second half (that line is no wider than
\* maxWidthPx) is the subject of C6.
C2_DroppedMeansEllipsis == (WrapDone /\ Dropped) => LastLineEllipsized

\* The whole text is no wider than maxWidthPx: it fits one line.
WholeTextFits == text # <<>> /\ Fits(text, fontPx10, maxWidthPx, canvas)

\* C3: for a non-empty text that fits, the returned lines carry no ellipsis
\* (the claim: they rejoin, with single spaces, to the text, no ellipsis added).
C3_FitsMeansNoEllipsis == (WrapDone /\ WholeTextFits) => NoEllipsis

\* C6 as stated: every returned line is no wider than maxWidthPx, for every
\* input, also when maxWidthPx is smaller than one character.
C6_EveryLineFits == WrapDone => AllLinesFit

\* maxWidthPx holds any one character of the text's tokens, and the ellipsis glyph.
RoomForOneGlyph ==
    /\ \A k \in 1..Len(text) : IsSpace(text[k]) \/ LineFits(<<text[k]>>)
    /\ LineFits(<<ell>>)

\* C6 amended: every returned line is no wider than maxWidthPx provided
\* maxWidthPx is at least the width of each single character of the tokens
\* and of the ellipsis glyph.
C6_EveryLineFitsGivenRoom == (WrapDone /\ RoomForOneGlyph) => AllLinesFit

\* A hard-broken token whose last line was stripped to take the ellipsis.
C6_Witness ==
    /\ WrapDone /\ RoomForOneGlyph /\ HasWideToken
    /\ Len(result) >= 2 /\ LastLineEllipsized /\ Dropped

\* The line is a prefix of the text followed by the ellipsis glyph.
IsPrefixPlusEllipsis(l) ==
    /\ EndsWithEllipsis(l)
    /\ Len(l) - 1 <= Len(text)
    /\ SubSeq(l, 1, Len(l) - 1) = SubSeq(text, 1, Len(l) - 1)

SingleWideTokenCall ==
    WrapDone /\ SingleToken /\ maxLines = 1
    /\ ~Fits(text, fontPx10, maxWidthPx, canvas)

\* C7 as stated: a single token wider than maxWidthPx with maxLines = 1 gives
\* exactly one line, a prefix of the token plus the ellipsis, no wider than
\* maxWidthPx.
C7_SingleTokenOneLine ==
    SingleWideTokenCall =>
        (Len(result) = 1 /\ IsPrefixPlusEllipsis(result[1]) /\ LineFits(result[1]))

\* C7 amended: exactly one line, a prefix of the token plus the ellipsis; it
\* is no wider than maxWidthPx provided maxWidthPx is at least the width of
\* the ellipsis glyph.
C7_SingleTokenOneLineGivenRoom ==
    SingleWideTokenCall =>
        /\ Len(result) = 1
        /\ IsPrefixPlusEllipsis(result[1])
        /\ LineFits(<<ell>>) => LineFits(result[1])

\* A wide token cut to a non-empty prefix and the ellipsis.
C7_Witness ==
    /\ SingleWideTokenCall /\ LineFits(<<ell>>)
    /\ Len(result) = 1 /\ Len(result[1]) >= 2 /\ LineFits(result[1])

IsExampleCall ==
    /\ text = ExampleCall.text /\ fontPx10 = ExampleCall.fontPx10
    /\ maxWidthPx = ExampleCall.maxWidthPx /\ maxLines = ExampleCall.maxLines

ScanDone == tpc \in {"outer", "vlines", "hlines", "cells", "done"}

\* Position (rr, cc) lies in the span rectangle of anchor a.
InRect(a, rr, cc) ==
    /\ a.r <= rr /\ rr < a.r + a.rowspan
    /\ a.c <= cc /\ cc < a.c + a.colspan

\* The anchors whose rectangle holds (rr, cc).
Owners(rr, cc) == {i \in 1..Len(anchors) : InRect(anchors[i], rr, cc)}

\* C4: the anchors' span rectangles tile the rows x cols grid: every grid
\* position lies in exactly one anchor's rectangle (no overlap, no gap).
C4_AnchorsTileGrid ==
    ScanDone =>
        \A rr \in 0..(rows - 1) : \A cc \in 0..(cols - 1) :
            Cardinality(Owners(rr, cc)) = 1

VLineDrawn(bnd) == \E i \in 1..Len(cmds) : cmds[i] = Cmd("vline", bnd)
HLineDrawn(bnd) == \E i \in 1..Len(cmds) : cmds[i] = Cmd("hline", bnd)

\* Some anchor has col < bnd < col + colspan.
ColumnStraddled(bnd) ==
    \E i \in 1..Len(anchors) :
        anchors[i].c < bnd /\ bnd < anchors[i].c + anchors[i].colspan

\* Some anchor has row < bnd < row + rowspan.
RowStraddled(bnd) ==
    \E i \in 1..Len(anchors) :
        anchors[i].r < bnd /\ bnd < anchors[i].r + anchors[i].rowspan

\* C5: in a completed build, the vertical line at column boundary b
\* (1 <= b < cols) is not drawn iff some anchor has col < b < col + colspan,
\* and the horizontal line at row boundary b is not drawn iff some anchor
\* has row < b < row + rowspan.
C5_LineOmittedIffStraddled ==
    (tpc = "done") =>
        /\ \A bnd \in 1..(cols - 1) : (~VLineDrawn(bnd)) <=> ColumnStraddled(bnd)
        /\ \A bnd \in 1..(rows - 1) : (~HLineDrawn(bnd)) <=> RowStraddled(bnd)

\* A completed build that omitted a vertical line and drew a horizontal one.
C5_Witness ==
    /\ tpc = "done"
    /\ \E bnd \in 1..(cols - 1) : ~VLineDrawn(bnd) /\ ColumnStraddled(bnd)
    /\ \E bnd \in 1..(rows - 1) : HLineDrawn(bnd)

\* The anchor recorded last, while the descriptor read for it is in `cell`.
LastAnchor == anchors[Len(anchors)]
LastAnchorRead == tpc \in {"scan", "outer"} /\ anchors # <<>>

\* A declared span within 1 .. room is kept unchanged.
KeptIfInRange(declared, room, resolved) ==
    (declared # NoSpan /\ declared[1] >= 1 /\ declared[1] <= room) => resolved = declared[1]

\* C9: every recorded anchor has 1 <= colspan <= cols - col and
\* 1 <= rowspan <= rows - row, whatever spans its descriptor declares
\* (absent, zero, negative, larger than the grid), and a declared span within
\* those bounds is kept unchanged.
C9_SpansClamped ==
    /\ \A i \in 1..Len(anchors) :
          /\ 1 <= anchors[i].colspan /\ anchors[i].colspan <= cols - anchors[i].c
          /\ 1 <= anchors[i].rowspan /\ anchors[i].rowspan <= rows - anchors[i].r
    /\ (LastAnchorRead /\ cell # Null) =>
          /\ KeptIfInRange(cell.colspan, cols - LastAnchor.c, LastAnchor.colspan)
          /\ KeptIfInRange(cell.rowspan, rows - LastAnchor.r, LastAnchor.rowspan)

\* An anchor whose declared colspan exceeded the columns left and was cut to
\* them, more than one, and whose declared rowspan was not positive.
C9_Witness ==
    /\ LastAnchorRead /\ cell # Null
    /\ cell.colspan # NoSpan /\ cell.colspan[1] > cols - LastAnchor.c
    /\ LastAnchor.colspan = cols - LastAnchor.c /\ LastAnchor.colspan >= 2
    /\ cell.rowspan # NoSpan /\ cell.rowspan[1] <= 0 /\ LastAnchor.rowspan = 1

\* The slide lacks a drawing capability the build uses.
SlideLacksCapability ==
    slide = Null \/ ~slide.addText \/ ~slide.addShape \/ ~slide.addImage

\* C10: if the slide lacks addShape, addText or addImage, the call fails
\* before any draw command has been emitted: no command is ever on the slide
\* and the call never completes.
C10_FailsBeforeDrawing ==
    (tpc # "idle" /\ SlideLacksCapability) => (cmds = <<>> /\ tpc # "done")

\* The slide has every method the build calls.
SlideCapable == slide # Null /\ slide.addText /\ slide.addShape /\ slide.addImage

\* C11: if a single draw call throws (a rectangle, line, text or image call
\* of a slide that has all its methods), the error is caught and the build
\* goes on: the call does not end by raising.
C11_SingleFailureCaught ==
    (SlideCapable /\ failures = 1) => tpc # "threw"

\* The place of a draw command in the prescribed order: the background
\* rectangle, the vertical lines by boundary, the horizontal lines by
\* boundary, the anchors by number and, within one anchor, the inner
\* rectangle, the label, the image, the value.
OrderKey(cmd) ==
    CASE cmd.kind = "outer" -> 0
      [] cmd.kind = "vline" -> 1000 + 10 * cmd.n
      [] cmd.kind = "hline" -> 2000 + 10 * cmd.n
      [] cmd.kind = "inner" -> 3000 + 10 * cmd.n
      [] cmd.kind = "label" -> 3000 + 10 * cmd.n + 1
      [] cmd.kind = "image" -> 3000 + 10 * cmd.n + 2
      [] cmd.kind = "value" -> 3000 + 10 * cmd.n + 3

\* The commands emitted for anchor number n.
CmdsOfAnchor(n) ==
    {cmds[i].kind : i \in {j \in 1..Len(cmds) :
                              cmds[j].kind \in {"inner", "label", "image", "value"}
                              /\ cmds[j].n = n}}

\* The anchors are numbered in row-major order of their positions.
AnchorsRowMajor ==
    \A i \in 1..(Len(anchors) - 1) :
        anchors[i].r * cols + anchors[i].c < anchors[i + 1].r * cols + anchors[i + 1].c

\* C12: in every call that completes, the commands were emitted in the order
\* background rectangle (one, first), vertical lines, horizontal lines, then
\* the anchors in row-major order, each with its inner rectangle, then label,
\* image, value; an anchor without a descriptor has its inner rectangle only.
C12_DrawOrder ==
    (tpc = "done") =>
        /\ cmds # <<>> /\ cmds[1] = Cmd("outer", 0)
        /\ \A i \in 1..(Len(cmds) - 1) : OrderKey(cmds[i]) < OrderKey(cmds[i + 1])
        /\ AnchorsRowMajor
        /\ \A n \in 1..Len(anchors) :
              /\ "inner" \in CmdsOfAnchor(n)
              /\ anchors[n].cell = Null => CmdsOfAnchor(n) = {"inner"}

\* A completed build with a vertical and a horizontal line, an anchor with
\* label, image and value, and an anchor without a descriptor.
C12_Witness ==
    /\ tpc = "done"
    /\ \E bnd \in 1..(cols - 1) : VLineDrawn(bnd)
    /\ \E bnd \in 1..(rows - 1) : HLineDrawn(bnd)
    /\ \E n \in 1..Len(anchors) : CmdsOfAnchor(n) = {"inner", "label", "image", "value"}
    /\ \E n \in 1..Len(anchors) : anchors[n].cell = Null

(***************************************************************************)
(* Properties of the service worker's fetch listener.                      *)
(***************************************************************************)
\* The event in hand is a GET that is not a navigation, past its cache lookup.
RevalidateEvent ==
    /\ spc \in {"net", "settled"}
    /\ req # Null /\ req.method = "GET" /\ req.mode # "navigate"

\* C13: for a GET that is not a navigation, the handler answers with the
\* cached response whenever the lookup found one, while the network fetch is
\* pending and after it succeeded or failed; only when the lookup found
\* nothing does it answer with the network's result, once that has settled.
C13_CachedResponseWins ==
    RevalidateEvent =>
        /\ cached # Null => responded = Respond("cache", cached)
        /\ cached = Null =>
              /\ spc = "net" => responded = Null
              /\ spc = "settled" =>
                    responded = Respond("network", IF net = Failed THEN Null ELSE net)

\* A cached response was served and the network fetch failed afterwards.
C13_Witness ==
    /\ RevalidateEvent /\ spc = "settled"
    /\ cached # Null /\ net = Failed
    /\ responded = Respond("cache", cached)

\* C14: every response the fetch handler has written into the cache is a
\* successful one: status 200 and not opaque.
C14_OnlySuccessfulCached ==
    \A res \in written : res.status = 200 /\ res.type # "opaque"

\* C15: in the stale-while-revalidate path, once the network has returned a
\* 200 response that is not opaque and the cache-open callback has run, the
\* cache holds that response, whenever the page read the response body.
C15_BackgroundWriteStores ==
    (RevalidateEvent /\ spc = "settled" /\ net # Failed /\ cacheable(net) /\ putJob = Null)
        => cache[req.url] = net

(***************************************************************************)
(* Termination of wrapWithEllipsis.                                        *)
(***************************************************************************)
\* The stepped run returns what the function returns.
SteppedRunAgrees ==
    lpc = "returned" =>
        result = wrapWithEllipsis(text, fontPx10, maxWidthPx, maxLines, canvas)

\* Every token is visited by at most two iterations: its processing and one
\* reprocessing after a full line was flushed.
AtMostOneReprocessing == \A j \in 1..Len(visits) : visits[j] <= 2

\* C16: wrapWithEllipsis terminates for every input: the token loop consumes
\* each token after at most one reprocessing, the strip loop ends at the
\* latest when the last line is empty, and the call returns.
C16_Terminates == [](AtMostOneReprocessing) /\ <>(lpc = "returned")

\* A returned call in which a token was reprocessed and the strip loop took
\* a last line that was not empty down to the empty string.
C16_Witness ==
    /\ lpc = "returned"
    /\ \E j \in 1..Len(visits) : visits[j] = 2
    /\ lst # Null /\ lst.lines # <<>> /\ lst.lines[Len(lst.lines)] # <<>>
    /\ lastLine = <<>>
    /\ result # <<>> /\ result[Len(result)] = <<ell>>

====
